---- MODULE Spec2Model ----
(***************************************************************************)
(* Model of bcc950_control.py: the BCC950Controller class (config store,   *)
(* device locator, control channel, motion sequencer) and the dispatch of  *)
(* main().  Text (file contents, command values, utility replies) is a     *)
(* sequence of one-character strings, so that formatting and parsing are   *)
(* computed character by character as the Python code computes them.       *)
(***************************************************************************)
EXTENDS Integers, Sequences, FiniteSets, TLC

VARIABLES
    pc,           \* the statement the process is at: "load_config", "main",
                  \* "run_command", "zoom_set", "find_camera", "test_camera",
                  \* "done", or "crashed" (an exception nothing catches);
                  \* "save_config" and "exit" in the save/load round trip
    config_file,  \* [exists, text]: the file ~/.bcc950_config
    arg_device,   \* the -d argument of main(); <<>> when not given
    device,       \* self.device
    pan_speed,    \* self.pan_speed
    tilt_speed,   \* self.tilt_speed
    zoom_step,    \* self.zoom_step
    existing,     \* the device nodes that exist under /dev
    op,           \* the operation main() dispatched
    todo,         \* the set requests of the running maneuver still to issue
    log,          \* every request handed to run_command, in order
    anyFail,      \* some run_command of this run returned False
    reading,      \* zoom_absolute as the device holds it (0: not read)
    reply,        \* run_command's result for the get request
    current_zoom, \* zoom_in / zoom_out local variable
    listing,      \* run_command's result for --list-devices
    globbed,      \* glob.glob('/dev/video*'), in the order it returned
    ctrls,        \* per device, run_command's result for --list-ctrls
    found,        \* return value of find_camera
    written       \* the fields the last save_config wrote

vars == <<pc, config_file, arg_device, device, pan_speed, tilt_speed,
          zoom_step, existing, op, todo, log, anyFail, reading, reply,
          current_zoom, listing, globbed, ctrls, found, written>>

----------------------------------------------------------------------------
(* Program constants *)

DefaultPanSpeed == 1
DefaultTiltSpeed == 1
DefaultZoomStep == 10
ZoomMax == 500
ZoomMin == 100

DefaultDevice == <<"/", "d", "e", "v", "/", "v", "i", "d", "e", "o", "0">>
VideoPrefix == <<"/", "d", "e", "v", "/", "v", "i", "d", "e", "o">>
KeyDevice == <<"D", "E", "V", "I", "C", "E">>
KeyPanSpeed == <<"P", "A", "N", "_", "S", "P", "E", "E", "D">>
KeyTiltSpeed == <<"T", "I", "L", "T", "_", "S", "P", "E", "E", "D">>
KeyZoomStep == <<"Z", "O", "O", "M", "_", "S", "T", "E", "P">>
Marker == <<"B", "C", "C", "9", "5", "0">>
PanSpeedName == <<"p", "a", "n", "_", "s", "p", "e", "e", "d">>
TiltSpeedName == <<"t", "i", "l", "t", "_", "s", "p", "e", "e", "d">>
ZoomName == <<"z", "o", "o", "m", "_", "a", "b", "s", "o", "l", "u", "t", "e">>

----------------------------------------------------------------------------
(* Python text primitives *)

Digits == <<"0", "1", "2", "3", "4", "5", "6", "7", "8", "9">>

IsDigit(c) == \E i \in 1..10 : Digits[i] = c

DigitVal(c) == (CHOOSE i \in 1..10 : Digits[i] = c) - 1

\* str.strip() and int() treat these as whitespace
IsSpace(c) == c \in {" ", "\t", "\n", "\r"}

RECURSIVE StrNat(_)
StrNat(n) == IF n < 10 THEN <<Digits[n + 1]>>
             ELSE StrNat(n \div 10) \o <<Digits[(n % 10) + 1]>>

\* str(n) / f"{n}" for an int
Str(n) == IF n < 0 THEN <<"-">> \o StrNat(0 - n) ELSE StrNat(n)

RECURSIVE LStrip(_)
LStrip(s) == IF s # <<>> /\ IsSpace(Head(s)) THEN LStrip(Tail(s)) ELSE s

RECURSIVE RStrip(_)
RStrip(s) == IF s # <<>> /\ IsSpace(s[Len(s)])
             THEN RStrip(SubSeq(s, 1, Len(s) - 1)) ELSE s

\* s.strip()
Strip(s) == RStrip(LStrip(s))

\* s.find(c) + 1: position of the first c in s, 0 when there is none
FirstIndex(s, c) ==
    IF \E i \in 1..Len(s) : s[i] = c
    THEN CHOOSE i \in 1..Len(s) : s[i] = c /\ \A j \in 1..(i - 1) : s[j] # c
    ELSE 0

\* pat in s
Contains(s, pat) ==
    \E i \in 1..(Len(s) - Len(pat) + 1) : SubSeq(s, i, i + Len(pat) - 1) = pat

\* position of the first occurrence of pat in s at or after from, 0 if none
FindFrom(s, pat, from) ==
    LET hits == {i \in from..(Len(s) - Len(pat) + 1) :
                    SubSeq(s, i, i + Len(pat) - 1) = pat}
    IN  IF hits = {} THEN 0 ELSE CHOOSE i \in hits : \A j \in hits : i <= j

\* position of the first line terminator of text, 0 when there is none
FirstBreak(text) ==
    IF \E i \in 1..Len(text) : text[i] \in {"\n", "\r"}
    THEN CHOOSE i \in 1..Len(text) :
            /\ text[i] \in {"\n", "\r"}
            /\ \A j \in 1..(i - 1) : text[j] \notin {"\n", "\r"}
    ELSE 0

\* "for line in f" on a file opened in text mode: the lines of the file, each
\* with its terminator (universal newlines: \n, \r and \r\n end a line)
RECURSIVE Lines(_)
Lines(text) ==
    IF text = <<>> THEN <<>>
    ELSE LET i == FirstBreak(text)
             e == IF i > 0 /\ i < Len(text) /\ text[i] = "\r" /\ text[i + 1] = "\n"
                  THEN i + 1 ELSE i
         IN  IF i = 0 THEN <<text>>
             ELSE <<SubSeq(text, 1, i - 1) \o <<"\n">> >>
                  \o Lines(SubSeq(text, e + 1, Len(text)))

RECURSIVE DigitsValue(_, _)
DigitsValue(s, acc) ==
    IF s = <<>> THEN acc
    ELSE IF Head(s) = "_" THEN DigitsValue(Tail(s), acc)
    ELSE DigitsValue(Tail(s), 10 * acc + DigitVal(Head(s)))

\* the body of an int literal: digits, single underscores only between digits
IsIntBody(s) ==
    /\ s # <<>>
    /\ IsDigit(s[1]) /\ IsDigit(s[Len(s)])
    /\ \A i \in 1..Len(s) : IsDigit(s[i]) \/ s[i] = "_"
    /\ \A i \in 1..(Len(s) - 1) : ~(s[i] = "_" /\ s[i + 1] = "_")

\* int(s): [ok |-> FALSE] stands for ValueError
PyInt(s) ==
    LET t == Strip(s)
        signed == t # <<>> /\ Head(t) \in {"-", "+"}
        body == IF signed THEN Tail(t) ELSE t
    IN  IF IsIntBody(body)
        THEN [ok |-> TRUE,
              val |-> IF signed /\ Head(t) = "-"
                      THEN 0 - DigitsValue(body, 0) ELSE DigitsValue(body, 0)]
        ELSE [ok |-> FALSE, val |-> 0]

----------------------------------------------------------------------------
(* Config store *)

Config(d, p, t, z) ==
    [device |-> d, pan_speed |-> p, tilt_speed |-> t, zoom_step |-> z]

\* the fields __init__ sets before it calls load_config
InitConfig(arg) ==
    Config(IF arg # <<>> THEN arg ELSE DefaultDevice,
           DefaultPanSpeed, DefaultTiltSpeed, DefaultZoomStep)

\* one iteration of the loop of load_config; ok = FALSE is int()'s ValueError
LoadLine(cfg, line) ==
    IF FirstIndex(line, "=") = 0 THEN [ok |-> TRUE, cfg |-> cfg]
    ELSE LET s == Strip(line)
             i == FirstIndex(s, "=")
             key == SubSeq(s, 1, i - 1)
             value == SubSeq(s, i + 1, Len(s))
             n == PyInt(value)
         IN  IF key = KeyDevice
             THEN [ok |-> TRUE, cfg |-> [cfg EXCEPT !.device = value]]
             ELSE IF key = KeyPanSpeed
             THEN [ok |-> n.ok, cfg |-> [cfg EXCEPT !.pan_speed = n.val]]
             ELSE IF key = KeyTiltSpeed
             THEN [ok |-> n.ok, cfg |-> [cfg EXCEPT !.tilt_speed = n.val]]
             ELSE IF key = KeyZoomStep
             THEN [ok |-> n.ok, cfg |-> [cfg EXCEPT !.zoom_step = n.val]]
             ELSE [ok |-> TRUE, cfg |-> cfg]

RECURSIVE LoadLines(_, _)
LoadLines(cfg, lines) ==
    IF lines = <<>> THEN [ok |-> TRUE, cfg |-> cfg]
    ELSE LET r == LoadLine(cfg, Head(lines))
         IN  IF r.ok THEN LoadLines(r.cfg, Tail(lines))
             ELSE [ok |-> FALSE, cfg |-> cfg]

\* load_config on a controller whose fields are cfg
LoadConfig(cfg, f) ==
    IF f.exists THEN LoadLines(cfg, Lines(f.text)) ELSE [ok |-> TRUE, cfg |-> cfg]

ConfigLine(key, value) == key \o <<"=">> \o value \o <<"\n">>

\* save_config writing pan_speed on the ZOOM_STEP line
SaveTextWrongField(cfg) ==
    ConfigLine(KeyDevice, cfg.device)
    \o ConfigLine(KeyPanSpeed, Str(cfg.pan_speed))
    \o ConfigLine(KeyTiltSpeed, Str(cfg.tilt_speed))
    \o ConfigLine(KeyZoomStep, Str(cfg.pan_speed))

\* the text save_config writes
SaveText(cfg) ==
    ConfigLine(KeyDevice, cfg.device)
    \o ConfigLine(KeyPanSpeed, Str(cfg.pan_speed))
    \o ConfigLine(KeyTiltSpeed, Str(cfg.tilt_speed))
    \o ConfigLine(KeyZoomStep, Str(cfg.zoom_step))

SaveConfig(cfg) == [exists |-> TRUE, text |-> SaveText(cfg)]

----------------------------------------------------------------------------
(* Control channel: the requests handed to run_command *)

NoText == <<>>

Cmd(verb, dev, ctrl, val) == [verb |-> verb, dev |-> dev, ctrl |-> ctrl, val |-> val]

\* f"v4l2-ctl -d {dev} -c {ctrl}={val}"
SetCtrl(dev, ctrl, val) == Cmd("set", dev, ctrl, val)

\* f"v4l2-ctl -d {dev} --get-ctrl={ctrl}"
GetCtrl(dev, ctrl) == Cmd("get", dev, ctrl, NoText)

\* f"v4l2-ctl -d {dev} --list-ctrls"
ListCtrls(dev) == Cmd("list-ctrls", dev, "", NoText)

\* "v4l2-ctl --list-devices"
ListDevices == Cmd("list-devices", NoText, "", NoText)

\* f"v4l2-ctl -d {dev} --all"
ShowInfo(dev) == Cmd("all", dev, "", NoText)

WhichCmd == Cmd("which", NoText, "", NoText)

InstallCmd == Cmd("install", NoText, "", NoText)

----------------------------------------------------------------------------
(* Motion sequencer: the set requests of each maneuver, in program order *)

\* f"...={n}"
Plus(n) == Str(n)

\* f"...=-{n}"
Minus(n) == <<"-">> \o Str(n)

Zero == <<"0">>

PanLeftSteps(dev, pan) ==
    <<SetCtrl(dev, "pan_speed", Minus(pan)), SetCtrl(dev, "pan_speed", Zero)>>

PanRightSteps(dev, pan) ==
    <<SetCtrl(dev, "pan_speed", Plus(pan)), SetCtrl(dev, "pan_speed", Zero)>>

TiltUpSteps(dev, tilt) ==
    <<SetCtrl(dev, "tilt_speed", Plus(tilt)), SetCtrl(dev, "tilt_speed", Zero)>>

TiltDownSteps(dev, tilt) ==
    <<SetCtrl(dev, "tilt_speed", Minus(tilt)), SetCtrl(dev, "tilt_speed", Zero)>>

\* reset_position moving at the configured speeds
ResetStepsConfigured(dev) ==
    << SetCtrl(dev, "pan_speed", Plus(pan_speed)),
       SetCtrl(dev, "pan_speed", Zero),
       SetCtrl(dev, "pan_speed", Minus(pan_speed)),
       SetCtrl(dev, "pan_speed", Zero),
       SetCtrl(dev, "tilt_speed", Plus(tilt_speed)),
       SetCtrl(dev, "tilt_speed", Zero),
       SetCtrl(dev, "tilt_speed", Minus(tilt_speed)),
       SetCtrl(dev, "tilt_speed", Zero),
       SetCtrl(dev, "zoom_absolute", Str(ZoomMin)) >>

ResetSteps(dev) ==
    << SetCtrl(dev, "pan_speed", <<"1">>),
       SetCtrl(dev, "pan_speed", Zero),
       SetCtrl(dev, "pan_speed", <<"-", "1">>),
       SetCtrl(dev, "pan_speed", Zero),
       SetCtrl(dev, "tilt_speed", <<"1">>),
       SetCtrl(dev, "tilt_speed", Zero),
       SetCtrl(dev, "tilt_speed", <<"-", "1">>),
       SetCtrl(dev, "tilt_speed", Zero),
       SetCtrl(dev, "zoom_absolute", Str(ZoomMin)) >>

\* list(range(start, stop, step))
RECURSIVE PyRange(_, _, _)
PyRange(start, stop, step) ==
    IF (step > 0 /\ start >= stop) \/ (step < 0 /\ start <= stop) THEN <<>>
    ELSE <<start>> \o PyRange(start + step, stop, step)

\* "for zoom in range(...): run_command(... zoom_absolute={zoom})"
ZoomRamp(dev, start, stop, step) ==
    LET r == PyRange(start, stop, step)
    IN  [i \in 1..Len(r) |-> SetCtrl(dev, "zoom_absolute", Str(r[i]))]

\* one diagonal hold of run_demo: both speeds set, then both stopped
Diagonal(dev, panVal, tiltVal) ==
    << SetCtrl(dev, "pan_speed", panVal), SetCtrl(dev, "tilt_speed", tiltVal),
       SetCtrl(dev, "pan_speed", Zero), SetCtrl(dev, "tilt_speed", Zero) >>

RampStep == 20
RampTop == 300

RunDemoSteps(dev, pan, tilt) ==
    <<SetCtrl(dev, "zoom_absolute", Str(ZoomMin))>>
    \o <<SetCtrl(dev, "pan_speed", Minus(pan))>>
    \o ZoomRamp(dev, ZoomMin, RampTop + 1, RampStep)
    \o <<SetCtrl(dev, "pan_speed", Zero)>>
    \o TiltUpSteps(dev, tilt)
    \o <<SetCtrl(dev, "pan_speed", Plus(pan))>>
    \o ZoomRamp(dev, RampTop, ZoomMin - 1, 0 - RampStep)
    \o <<SetCtrl(dev, "pan_speed", Zero)>>
    \o TiltDownSteps(dev, tilt)
    \o ZoomRamp(dev, ZoomMin, ZoomMax + 1, RampStep)
    \o ZoomRamp(dev, ZoomMax, ZoomMin - 1, 0 - RampStep)
    \o Diagonal(dev, Plus(pan), Plus(tilt))
    \o Diagonal(dev, Minus(pan), Minus(tilt))
    \o Diagonal(dev, Minus(pan), Plus(tilt))
    \o Diagonal(dev, Plus(pan), Minus(tilt))
    \o ResetSteps(dev)

\* zoom_in without the upper clamp
ZoomInUnclamped(current, step) == current + step

\* zoom_in: new_zoom
ZoomInNew(current, step) == IF current + step < ZoomMax THEN current + step ELSE ZoomMax

\* zoom_out: new_zoom
ZoomOutNew(current, step) == IF current - step > ZoomMin THEN current - step ELSE ZoomMin

\* int(zoom_output.split('=')[1].strip()); ok = FALSE is the exception raised
\* (AttributeError on False, IndexError without '=', ValueError from int)
ParseZoom(r) ==
    IF ~r.ok THEN [ok |-> FALSE, val |-> 0]
    ELSE LET i == FirstIndex(r.out, "=")
             rest == SubSeq(r.out, i + 1, Len(r.out))
             k == FirstIndex(rest, "=")
             part == IF k = 0 THEN rest ELSE SubSeq(rest, 1, k - 1)
         IN  IF i = 0 THEN [ok |-> FALSE, val |-> 0] ELSE PyInt(Strip(part))

----------------------------------------------------------------------------
(* Device locator *)

\* end of the run of digits of s that starts at position i
RECURSIVE DigitsEnd(_, _)
DigitsEnd(s, i) == IF i < Len(s) /\ IsDigit(s[i + 1]) THEN DigitsEnd(s, i + 1) ELSE i

\* positions at or after from where /dev/video and one digit start in s
VideoAt(s, from) ==
    {k \in from..(Len(s) - Len(VideoPrefix)) :
        /\ SubSeq(s, k, k + Len(VideoPrefix) - 1) = VideoPrefix
        /\ IsDigit(s[k + Len(VideoPrefix)])}

\* re.search(r"BCC950.*?\n(.*?/dev/video\d+)", s, re.DOTALL): group(1)
\* stripped, ok = FALSE when there is no match
MatchDevice(s) ==
    LET b == FindFrom(s, Marker, 1)
        n == IF b = 0 THEN 0 ELSE FindFrom(s, <<"\n">>, b + Len(Marker))
        hits == IF n = 0 THEN {} ELSE VideoAt(s, n + 1)
    IN  IF hits = {} THEN [ok |-> FALSE, dev |-> NoText]
        ELSE LET k == CHOOSE i \in hits : \A j \in hits : i <= j
                 e == DigitsEnd(s, k + Len(VideoPrefix))
             IN  [ok |-> TRUE, dev |-> Strip(SubSeq(s, n + 1, e))]

\* "if output and 'pan_speed' in output"
HasPanSpeed(output) == output.ok /\ output.out # <<>> /\ Contains(output.out, PanSpeedName)

\* the loop returning on the first device whose control list could be read
RECURSIVE ProbeAnyOutput(_, _)
ProbeAnyOutput(devs, outputs) ==
    IF devs = <<>> THEN [ok |-> FALSE, dev |-> NoText, log |-> <<>>, fail |-> FALSE]
    ELSE LET d == Head(devs)
             rest == ProbeAnyOutput(Tail(devs), outputs)
         IN  IF outputs[d].ok
             THEN [ok |-> TRUE, dev |-> d, log |-> <<ListCtrls(d)>>, fail |-> FALSE]
             ELSE [ok |-> rest.ok, dev |-> rest.dev,
                   log |-> <<ListCtrls(d)>> \o rest.log, fail |-> TRUE]

\* the loop over all_video_devices: the requests it issues and the device it
\* returns on (ok = FALSE when it runs off the end of the list)
RECURSIVE Probe(_, _)
Probe(devs, outputs) ==
    IF devs = <<>> THEN [ok |-> FALSE, dev |-> NoText, log |-> <<>>, fail |-> FALSE]
    ELSE LET d == Head(devs)
             rest == Probe(Tail(devs), outputs)
         IN  IF HasPanSpeed(outputs[d])
             THEN [ok |-> TRUE, dev |-> d, log |-> <<ListCtrls(d)>>, fail |-> FALSE]
             ELSE [ok |-> rest.ok, dev |-> rest.dev,
                   log |-> <<ListCtrls(d)>> \o rest.log,
                   fail |-> rest.fail \/ ~outputs[d].ok]

----------------------------------------------------------------------------
(* The environment: bounded sets the inputs are drawn from *)

MaxDevices == 2

Video(i) == VideoPrefix \o Str(i)

\* the /dev/video* nodes that may exist
VideoDevices == {Video(i) : i \in 0..(MaxDevices - 1)}

Perms(S) ==
    {s \in [1..Cardinality(S) -> S] : \A i, j \in 1..Cardinality(S) : s[i] = s[j] => i = j}

NoFile == [exists |-> FALSE, text |-> NoText]

File(text) == [exists |-> TRUE, text |-> text]

DeviceLine == ConfigLine(KeyDevice, Video(1))

PanLines == {NoText, ConfigLine(KeyPanSpeed, <<"2">>), ConfigLine(KeyPanSpeed, <<"x">>),
             ConfigLine(KeyPanSpeed, <<"-", "2">>), ConfigLine(KeyPanSpeed, <<"0">>)}

TiltLines == {NoText, ConfigLine(KeyTiltSpeed, <<"3">>)}

ZoomLines == {NoText, ConfigLine(KeyZoomStep, <<"1", "5">>),
              <<" ">> \o ConfigLine(KeyZoomStep, <<" ", "-", "2", "0", " ">>)}

\* a file with a comment, an unknown key, a line without '=' and a key given twice
OddFile ==
    File(<<"#", " ", "a", "=", "1", "\n">> \o <<"X", "=", "1", "\n">> \o <<"P", "A", "N", "\n">>
         \o ConfigLine(KeyTiltSpeed, <<"2">>) \o ConfigLine(KeyTiltSpeed, <<"4">>))

\* the config files the process may find: none, partial ones, ones with
\* values int() rejects or that are not positive, and complete ones
Files ==
    {NoFile, OddFile, File(DeviceLine),
     File(DeviceLine \o ConfigLine(KeyPanSpeed, <<"2">>) \o ConfigLine(KeyTiltSpeed, <<"3">>)
          \o ConfigLine(KeyZoomStep, <<"1", "5">>))} \cup
    {File(p \o t \o z) : p \in PanLines, t \in TiltLines, z \in ZoomLines}

ArgDevices == {NoText, Video(0)}

ZoomReadings == {50, 100, 490, 500, 600}

Failed == [ok |-> FALSE, out |-> NoText]

Output(text) == [ok |-> TRUE, out |-> text]

\* replies to --get-ctrl=zoom_absolute when the device holds z
ReplyEquals(z) == Output(ZoomName \o <<"=">> \o Str(z) \o <<"\n">>)

ReplyColon(z) == Output(ZoomName \o <<":", " ">> \o Str(z) \o <<"\n">>)

Replies(z) == {Failed, ReplyEquals(z), ReplyColon(z)}

\* outputs of --list-devices
ListingPlain == Output(<<"c", "a", "m", "\n", "\t", "/", "d", "e", "v", "/", "v", "i", "d", "e", "o", "0", "\n">>)

ListingMarked == Output(<<"B", "C", "C", "9", "5", "0", "\n", "\t", "/", "d", "e", "v", "/", "v", "i", "d", "e", "o", "1", "\n", "\t", "/", "d", "e", "v", "/", "v", "i", "d", "e", "o", "2", "\n">>)

ListingMedia == Output(<<"B", "C", "C", "9", "5", "0", "\n", "/", "d", "e", "v", "/", "m", "e", "d", "i", "a", "0", "\n", "\t", "/", "d", "e", "v", "/", "v", "i", "d", "e", "o", "1", "\n">>)

ListingNoPath == Output(<<"B", "C", "C", "9", "5", "0", "\n">>)

Listings == {Failed, ListingPlain, ListingMarked, ListingMedia, ListingNoPath}

\* outputs of --list-ctrls
CtrlsPTZ == Output(<<"p", "a", "n", "_", "s", "p", "e", "e", "d", " ", "(", "i", "n", "t", ")", "\n", "t", "i", "l", "t", "_", "s", "p", "e", "e", "d", " ", "(", "i", "n", "t", ")", "\n", "z", "o", "o", "m", "_", "a", "b", "s", "o", "l", "u", "t", "e", " ", "(", "i", "n", "t", ")", "\n">>)

CtrlsOther == Output(<<"b", "r", "i", "g", "h", "t", "n", "e", "s", "s", " ", "(", "i", "n", "t", ")", "\n">>)

CtrlOutputs == {Failed, CtrlsPTZ, CtrlsOther}

----------------------------------------------------------------------------
(* The process: main() constructs a controller and dispatches one operation *)

\* BCC950Controller.__init__ up to the call of load_config
Init ==
    /\ pc = "load_config"
    /\ config_file \in Files
    /\ arg_device \in ArgDevices
    /\ existing \in SUBSET VideoDevices
    /\ device = InitConfig(arg_device).device
    /\ pan_speed = InitConfig(arg_device).pan_speed
    /\ tilt_speed = InitConfig(arg_device).tilt_speed
    /\ zoom_step = InitConfig(arg_device).zoom_step
    /\ op = ""
    /\ todo = <<>>
    /\ log = <<>>
    /\ anyFail = FALSE
    /\ reading = 0
    /\ reply = Failed
    /\ current_zoom = 0
    /\ listing = Failed
    /\ globbed = <<>>
    /\ ctrls = <<>>
    /\ found = FALSE
    /\ written = InitConfig(NoText)

\* the result of run_command for a request: False when the utility exits
\* non-zero, which it does for a device node that does not exist
Outcomes(cmd) ==
    IF cmd.verb \in {"set", "get", "list-ctrls", "all"} /\ cmd.dev \notin existing
    THEN {FALSE} ELSE BOOLEAN

\* load_config, as called by __init__; a ValueError leaves main() without a
\* controller
load_config ==
    /\ pc = "load_config"
    /\ LET r == LoadConfig(Config(device, pan_speed, tilt_speed, zoom_step), config_file)
       IN  /\ device' = r.cfg.device
           /\ pan_speed' = r.cfg.pan_speed
           /\ tilt_speed' = r.cfg.tilt_speed
           /\ zoom_step' = r.cfg.zoom_step
           /\ pc' = IF r.ok THEN "main" ELSE "crashed"
    /\ UNCHANGED <<config_file, arg_device, existing, op, todo, log, anyFail,
                   reading, reply, current_zoom, listing, globbed, ctrls, found, written>>

\* the requests of the operations that are a fixed sequence of run_command calls
Steps(o) ==
    CASE o = "pan_left" -> PanLeftSteps(device, pan_speed)
      [] o = "pan_right" -> PanRightSteps(device, pan_speed)
      [] o = "tilt_up" -> TiltUpSteps(device, tilt_speed)
      [] o = "tilt_down" -> TiltDownSteps(device, tilt_speed)
      [] o = "reset_position" -> ResetSteps(device)
      [] o = "list_devices" -> <<ListDevices>>
      [] o = "show_info" -> <<ShowInfo(device)>>

Maneuvers == {"pan_left", "pan_right", "tilt_up", "tilt_down", "reset_position",
              "list_devices", "show_info"}

\* main() dispatching one of the fixed-sequence operations
maneuver ==
    /\ pc = "main"
    /\ \E o \in Maneuvers :
        /\ op' = o
        /\ todo' = Steps(o)
    /\ pc' = "run_command"
    /\ UNCHANGED <<config_file, arg_device, device, pan_speed, tilt_speed, zoom_step,
                   existing, log, anyFail, reading, reply, current_zoom, listing,
                   globbed, ctrls, found, written>>

\* run_demo up to its first request: the os.path.exists check
run_demo ==
    /\ pc = "main"
    /\ op' = "run_demo"
    /\ IF device \in existing
       THEN /\ todo' = RunDemoSteps(device, pan_speed, tilt_speed)
            /\ pc' = "run_command"
       ELSE /\ todo' = <<>>
            /\ pc' = "done"
    /\ UNCHANGED <<config_file, arg_device, device, pan_speed, tilt_speed, zoom_step,
                   existing, log, anyFail, reading, reply, current_zoom, listing,
                   globbed, ctrls, found, written>>

\* run_command without its except clause: a failed request ends the process
run_command_raises ==
    /\ pc = "run_command"
    /\ todo # <<>>
    /\ \E ok \in Outcomes(Head(todo)) :
        /\ anyFail' = (anyFail \/ ~ok)
        /\ pc' = IF ~ok THEN "crashed" ELSE IF Tail(todo) = <<>> THEN "done" ELSE "run_command"
    /\ log' = Append(log, Head(todo))
    /\ todo' = Tail(todo)
    /\ UNCHANGED <<config_file, arg_device, device, pan_speed, tilt_speed, zoom_step,
                   existing, op, reading, reply, current_zoom, listing, globbed,
                   ctrls, found, written>>

\* the next run_command call of the running operation; CalledProcessError is
\* caught and the caller ignores the result
run_command ==
    /\ pc = "run_command"
    /\ todo # <<>>
    /\ \E ok \in Outcomes(Head(todo)) :
        anyFail' = (anyFail \/ ~ok)
    /\ log' = Append(log, Head(todo))
    /\ todo' = Tail(todo)
    /\ pc' = IF Tail(todo) = <<>> THEN "done" ELSE "run_command"
    /\ UNCHANGED <<config_file, arg_device, device, pan_speed, tilt_speed, zoom_step,
                   existing, op, reading, reply, current_zoom, listing, globbed,
                   ctrls, found, written>>

\* zoom_in / zoom_out up to new_zoom: the get request and the parse of its reply
zoom_get ==
    /\ pc = "main"
    /\ \E o \in {"zoom_in", "zoom_out"}, z \in ZoomReadings :
        \E r \in Replies(z) :
            /\ r.ok => TRUE \in Outcomes(GetCtrl(device, "zoom_absolute"))
            /\ op' = o
            /\ reading' = z
            /\ reply' = r
            /\ anyFail' = ~r.ok
            /\ current_zoom' = ParseZoom(r).val
            /\ pc' = IF ParseZoom(r).ok THEN "zoom_set" ELSE "crashed"
    /\ log' = Append(log, GetCtrl(device, "zoom_absolute"))
    /\ UNCHANGED <<config_file, arg_device, device, pan_speed, tilt_speed, zoom_step,
                   existing, todo, listing, globbed, ctrls, found, written>>

\* zoom_in / zoom_out from new_zoom on: the clamp and the set request
zoom_set ==
    /\ pc = "zoom_set"
    /\ LET new_zoom == IF op = "zoom_in" THEN ZoomInNew(current_zoom, zoom_step)
                       ELSE ZoomOutNew(current_zoom, zoom_step)
           cmd == SetCtrl(device, "zoom_absolute", Str(new_zoom))
       IN  /\ log' = Append(log, cmd)
           /\ \E ok \in Outcomes(cmd) : anyFail' = (anyFail \/ ~ok)
    /\ pc' = "done"
    /\ UNCHANGED <<config_file, arg_device, device, pan_speed, tilt_speed, zoom_step,
                   existing, op, todo, reading, reply, current_zoom, listing, globbed,
                   ctrls, found, written>>

\* setup up to find_camera: "which v4l2-ctl", and install_prerequisites when
\* that fails (os is whether detect_os names a supported distribution)
setup ==
    /\ pc = "main"
    /\ op' = "setup"
    /\ \E which \in BOOLEAN, os \in BOOLEAN, installed \in BOOLEAN :
        /\ log' = IF which \/ ~os THEN <<WhichCmd>> ELSE <<WhichCmd, InstallCmd>>
        /\ anyFail' = (~which \/ ~installed)
        /\ pc' = IF which \/ (os /\ installed) THEN "find_camera" ELSE "done"
        /\ which => installed
        /\ ~os => ~installed
    /\ UNCHANGED <<config_file, arg_device, device, pan_speed, tilt_speed, zoom_step,
                   existing, todo, reading, reply, current_zoom, listing, globbed,
                   ctrls, found, written>>

\* find_camera
find_camera ==
    /\ pc = "find_camera"
    /\ \E l \in Listings, order \in Perms(existing), outputs \in [existing -> CtrlOutputs] :
        LET m == MatchDevice(l.out)
            byName == l.ok /\ Contains(l.out, Marker) /\ m.ok
            p == Probe(order, outputs)
            hit == byName \/ p.ok
            dev == IF byName THEN m.dev ELSE IF p.ok THEN p.dev ELSE device
        IN  /\ listing' = l
            /\ globbed' = IF l.ok /\ ~byName THEN order ELSE <<>>
            /\ ctrls' = IF l.ok /\ ~byName THEN outputs ELSE <<>>
            /\ log' = IF l.ok /\ ~byName THEN Append(log, ListDevices) \o p.log
                      ELSE Append(log, ListDevices)
            /\ anyFail' = (anyFail \/ ~l.ok \/ (~byName /\ p.fail))
            /\ device' = IF l.ok THEN dev ELSE device
            /\ found' = (l.ok /\ hit)
            /\ config_file' = IF l.ok /\ hit
                              THEN SaveConfig(Config(dev, pan_speed, tilt_speed, zoom_step))
                              ELSE config_file
            /\ written' = IF l.ok /\ hit
                          THEN Config(dev, pan_speed, tilt_speed, zoom_step) ELSE written
            /\ pc' = IF l.ok THEN "test_camera" ELSE "crashed"
    /\ UNCHANGED <<arg_device, pan_speed, tilt_speed, zoom_step, existing, op, todo,
                   reading, reply, current_zoom>>

\* test_camera, and the end of setup
test_camera ==
    /\ pc = "test_camera"
    /\ IF device \notin existing
       THEN /\ pc' = "done"
            /\ UNCHANGED <<log, anyFail>>
       ELSE /\ log' = Append(log, ListCtrls(device))
            /\ \E output \in CtrlOutputs :
                /\ anyFail' = (anyFail \/ ~output.ok)
                /\ pc' = IF output.ok THEN "done" ELSE "crashed"
    /\ UNCHANGED <<config_file, arg_device, device, pan_speed, tilt_speed, zoom_step,
                   existing, op, todo, reading, reply, current_zoom, listing, globbed,
                   ctrls, found, written>>

Next ==
    \/ load_config
    \/ maneuver
    \/ run_demo
    \/ run_command
    \/ zoom_get
    \/ zoom_set
    \/ setup
    \/ find_camera
    \/ test_camera

Spec == Init /\ [][Next]_vars

TypeOK ==
    /\ pc \in {"load_config", "main", "run_command", "zoom_set", "find_camera",
               "test_camera", "done", "crashed", "save_config", "exit"}
    /\ pan_speed \in Int /\ tilt_speed \in Int /\ zoom_step \in Int
    /\ anyFail \in BOOLEAN /\ found \in BOOLEAN
    /\ Len(log) <= 120

----------------------------------------------------------------------------
(* The save/load round trip: save_config on a controller with any fields,   *)
(* then a new process whose __init__ loads the file                         *)

RoundTripDevices ==
    {Video(2), NoText, <<" ">> \o Video(2), Video(2) \o <<"\t">>, <<"a", "=", "b">>,
     <<"/", "d", "e", "v", "/", "m", "e", "d", "i", "a", "0", "\n", "\t", "/", "d", "e", "v", "/", "v", "i", "d", "e", "o", "1">>}

RoundTripInts == {0 - 20, 0, 1, 2, 3, 15}

InitRoundTrip ==
    /\ pc = "save_config"
    /\ config_file \in {NoFile, OddFile}
    /\ arg_device \in ArgDevices
    /\ existing = {}
    /\ device \in RoundTripDevices
    /\ pan_speed \in RoundTripInts
    /\ tilt_speed \in RoundTripInts
    /\ zoom_step \in RoundTripInts
    /\ op = ""
    /\ todo = <<>>
    /\ log = <<>>
    /\ anyFail = FALSE
    /\ reading = 0
    /\ reply = Failed
    /\ current_zoom = 0
    /\ listing = Failed
    /\ globbed = <<>>
    /\ ctrls = <<>>
    /\ found = FALSE
    /\ written = InitConfig(NoText)

\* save_config
save_config ==
    /\ pc = "save_config"
    /\ config_file' = SaveConfig(Config(device, pan_speed, tilt_speed, zoom_step))
    /\ written' = Config(device, pan_speed, tilt_speed, zoom_step)
    /\ pc' = "exit"
    /\ UNCHANGED <<arg_device, device, pan_speed, tilt_speed, zoom_step, existing, op,
                   todo, log, anyFail, reading, reply, current_zoom, listing, globbed,
                   ctrls, found>>

\* the process ends and main() constructs the controller of the next one:
\* __init__ up to the call of load_config
restart ==
    /\ pc = "exit"
    /\ device' = InitConfig(arg_device).device
    /\ pan_speed' = InitConfig(arg_device).pan_speed
    /\ tilt_speed' = InitConfig(arg_device).tilt_speed
    /\ zoom_step' = InitConfig(arg_device).zoom_step
    /\ pc' = "load_config"
    /\ UNCHANGED <<config_file, arg_device, existing, op, todo, log, anyFail, reading,
                   reply, current_zoom, listing, globbed, ctrls, found, written>>

NextRoundTrip ==
    \/ save_config
    \/ restart
    \/ load_config

SpecRoundTrip == InitRoundTrip /\ [][NextRoundTrip]_vars

----------------------------------------------------------------------------
(* Properties *)

\* the integer a written value denotes (ok = FALSE: it is not an integer)
Denotes(val, n) == PyInt(val).ok /\ PyInt(val).val = n

IsSet(cmd, ctrl) == cmd.verb = "set" /\ cmd.dev = device /\ cmd.ctrl = ctrl

ZoomOps == {"zoom_in", "zoom_out"}

Smaller(a, b) == CHOOSE m \in {a, b} : m <= a /\ m <= b

Larger(a, b) == CHOOSE m \in {a, b} : m >= a /\ m >= b

\* C1: every value zoom_in or zoom_out writes to zoom_absolute lies in
\* [100, 500], whatever the reading and the configured zoom step
C1_ZoomWritesInRange ==
    op \in ZoomOps =>
        \A i \in 1..Len(log) :
            (log[i].verb = "set" /\ log[i].ctrl = "zoom_absolute") =>
                /\ PyInt(log[i].val).ok
                /\ PyInt(log[i].val).val >= 100
                /\ PyInt(log[i].val).val <= 500

\* C2: when the get request is answered with the reading z, zoom_in issues
\* exactly the get and then one set of min(z + zoom_step, 500), and zoom_out
\* exactly the get and then one set of max(z - zoom_step, 100)
C2_ZoomReadThenWrite ==
    (op \in ZoomOps /\ reply = ReplyEquals(reading)) =>
        /\ pc \in {"zoom_set", "done"}
        /\ pc = "zoom_set" => log = <<GetCtrl(device, "zoom_absolute")>>
        /\ pc = "done" =>
            /\ Len(log) = 2
            /\ log[1] = GetCtrl(device, "zoom_absolute")
            /\ IsSet(log[2], "zoom_absolute")
            /\ op = "zoom_in" => Denotes(log[2].val, Smaller(reading + zoom_step, 500))
            /\ op = "zoom_out" => Denotes(log[2].val, Larger(reading - zoom_step, 100))

C2_Witness ==
    /\ pc = "done" /\ op = "zoom_in"
    /\ reply = ReplyEquals(reading)
    /\ reading = 490 /\ zoom_step = 10
    /\ Len(log) = 2 /\ log[2].val = <<"5", "0", "0">>

\* the text of line i of the config file starts with key and '='
LineHasKey(i, key) ==
    LET ls == Lines(config_file.text)
    IN  /\ Len(ls[i]) > Len(key)
        /\ SubSeq(ls[i], 1, Len(key) + 1) = key \o <<"=">>

FourLines ==
    /\ config_file.exists
    /\ Len(Lines(config_file.text)) = 4
    /\ LineHasKey(1, KeyDevice)
    /\ LineHasKey(2, KeyPanSpeed)
    /\ LineHasKey(3, KeyTiltSpeed)
    /\ LineHasKey(4, KeyZoomStep)

RoundTripHolds ==
    /\ pc = "main"
    /\ Config(device, pan_speed, tilt_speed, zoom_step) = written
    /\ FourLines

\* a device path without line breaks and without whitespace at either end
PlainPath(d) ==
    /\ \A i \in 1..Len(d) : d[i] \notin {"\n", "\r"}
    /\ d = <<>> \/ (~IsSpace(d[1]) /\ ~IsSpace(d[Len(d)]))

ValuesFor(key) ==
    LET ls == Lines(config_file.text)
    IN  {Strip(SubSeq(Strip(ls[i]), Len(key) + 2, Len(Strip(ls[i])))) :
            i \in {j \in 1..Len(ls) :
                    /\ Len(Strip(ls[j])) > Len(key)
                    /\ SubSeq(Strip(ls[j]), 1, Len(key) + 1) = key \o <<"=">>}}

IntFieldLoaded(key, field, default) ==
    LET parsed == {PyInt(v).val : v \in {w \in ValuesFor(key) : PyInt(w).ok}}
    IN  IF config_file.exists /\ parsed # {} THEN field \in parsed ELSE field = default

\* C4: load never fails, and gives each field the value parsed from the file,
\* or its default when the file is missing, has no line for the key, or has
\* a value for it that is not an integer
C4_LoadNeverFails ==
    /\ ~(pc = "crashed" /\ op = "")
    /\ pc = "main" =>
        /\ IF config_file.exists /\ ValuesFor(KeyDevice) # {}
           THEN device \in ValuesFor(KeyDevice)
           ELSE device = InitConfig(arg_device).device
        /\ IntFieldLoaded(KeyPanSpeed, pan_speed, 1)
        /\ IntFieldLoaded(KeyTiltSpeed, tilt_speed, 1)
        /\ IntFieldLoaded(KeyZoomStep, zoom_step, 10)

ControlOps == {"pan_left", "pan_right", "tilt_up", "tilt_down", "zoom_in", "zoom_out",
               "reset_position", "run_demo"}

\* C5: a control operation on a device path that does not exist issues no
\* get or set request
C5_NoRequestWithoutDevice ==
    (op \in ControlOps /\ device \notin existing) =>
        \A i \in 1..Len(log) : log[i].verb \notin {"get", "set"}

\* the (control, value) pairs reset_position writes
ResetWrites ==
    << <<"pan_speed", 1>>, <<"pan_speed", 0>>, <<"pan_speed", 0 - 1>>, <<"pan_speed", 0>>,
       <<"tilt_speed", 1>>, <<"tilt_speed", 0>>, <<"tilt_speed", 0 - 1>>, <<"tilt_speed", 0>>,
       <<"zoom_absolute", 100>> >>

\* requests from..(from + 8) of the log are the nine writes of reset_position
IsReset(from) ==
    \A i \in 1..9 :
        /\ IsSet(log[from + i - 1], ResetWrites[i][1])
        /\ Denotes(log[from + i - 1].val, ResetWrites[i][2])

\* C6: reset_position issues exactly the nine writes pan_speed 1, 0, -1, 0,
\* tilt_speed 1, 0, -1, 0, zoom_absolute 100 in this order, whatever the
\* configured speeds and step and whichever writes fail
C6_ResetNineWrites ==
    op = "reset_position" =>
        /\ pc \in {"run_command", "done"}
        /\ Len(log) + Len(todo) = 9
        /\ \A i \in 1..Len(log) :
            /\ IsSet(log[i], ResetWrites[i][1])
            /\ Denotes(log[i].val, ResetWrites[i][2])
        /\ pc = "done" => (Len(log) = 9 /\ IsReset(1))

C6_Witness ==
    /\ pc = "done" /\ op = "reset_position"
    /\ anyFail /\ device \in existing
    /\ pan_speed = 2 /\ tilt_speed = 3 /\ zoom_step = 15
    /\ Len(log) = 9

\* C7: pan_left, pan_right, tilt_up and tilt_down each issue exactly two
\* writes, both to their own control: the signed configured speed, then 0
C7_TwoWrites ==
    (pc = "done" /\ op \in {"pan_left", "pan_right", "tilt_up", "tilt_down"}) =>
        LET ctrl == IF op \in {"pan_left", "pan_right"} THEN "pan_speed" ELSE "tilt_speed"
            speed == CASE op = "pan_left" -> 0 - pan_speed
                       [] op = "pan_right" -> pan_speed
                       [] op = "tilt_up" -> tilt_speed
                       [] op = "tilt_down" -> 0 - tilt_speed
        IN  /\ Len(log) = 2
            /\ IsSet(log[1], ctrl) /\ Denotes(log[1].val, speed)
            /\ IsSet(log[2], ctrl) /\ Denotes(log[2].val, 0)

\* the control list r has a line for the control pan_speed
HasPanEntry(r) ==
    r.ok /\ \E i \in 1..Len(Lines(r.out)) :
        LET l == Strip(Lines(r.out)[i])
        IN  /\ Len(l) > Len(PanSpeedName)
            /\ SubSeq(l, 1, Len(PanSpeedName) + 1) = PanSpeedName \o <<" ">>

\* C8: when the device listing has no product marker and exactly one of the
\* enumerated devices has a pan_speed entry in its control list, find_camera
\* returns True with that device selected and saved as DEVICE, and with
\* pan_speed, tilt_speed and zoom_step as they were, in whatever order the
\* devices were enumerated
C8_ProbeSelects ==
    [][ ( /\ pc = "find_camera"
          /\ listing'.ok /\ ~Contains(listing'.out, Marker)
          /\ Cardinality({d \in existing : HasPanEntry(ctrls'[d])}) = 1 )
        => LET d == CHOOSE e \in existing : HasPanEntry(ctrls'[e])
           IN  /\ found'
               /\ device' = d
               /\ <<pan_speed', tilt_speed', zoom_step'>> = <<pan_speed, tilt_speed, zoom_step>>
               /\ config_file'.exists
               /\ LoadConfig(InitConfig(NoText), config_file')
                    = [ok |-> TRUE, cfg |-> Config(d, pan_speed, tilt_speed, zoom_step)]
      ]_vars

C8_Witness ==
    /\ pc = "test_camera" /\ found
    /\ listing = ListingPlain
    /\ Len(globbed) = 2
    /\ device = globbed[2] /\ device # DefaultDevice
    /\ HasPanEntry(ctrls[globbed[2]]) /\ ~HasPanEntry(ctrls[globbed[1]])
    /\ pan_speed = 2
    /\ written.device = device

\* C9: run_demo on an existing device issues its whole sequence of set
\* requests whichever of them fail; every pan_speed or tilt_speed write
\* other than 0 is followed by a write of 0 to the same control; and the
\* last nine requests are the writes of reset_position
C9_DemoRunsToCompletion ==
    (op = "run_demo" /\ device \in existing) =>
        /\ pc \in {"run_command", "done"}
        /\ Len(log) + Len(todo) = 98
        /\ log \o todo = RunDemoSteps(device, pan_speed, tilt_speed)
        /\ pc = "done" =>
            /\ todo = <<>>
            /\ \A i \in 1..98 : log[i].verb = "set" /\ log[i].dev = device
            /\ \A i \in 1..98 :
                (log[i].ctrl \in {"pan_speed", "tilt_speed"} /\ log[i].val # <<"0">>) =>
                    \E j \in (i + 1)..98 :
                        log[j].ctrl = log[i].ctrl /\ log[j].val = <<"0">>
            /\ IsReset(90)

C9_Witness ==
    /\ pc = "done" /\ op = "run_demo"
    /\ anyFail
    /\ Len(log) = 98
    /\ pan_speed = 2

\* C10: once the controller is constructed, pan_speed >= 1, tilt_speed >= 1
\* and zoom_step > 0
C10_ConfigInvariant ==
    (pc # "load_config" /\ ~(pc = "crashed" /\ op = "")) =>
        /\ pan_speed >= 1
        /\ tilt_speed >= 1
        /\ zoom_step > 0

====
